---- MODULE Spec2Model ----
(***************************************************************************)
(* PythonAPI/util/scene_layout.py: get_scene_layout, get_dynamic_objects,  *)
(* World and main, as one state machine.  A behaviour is one call of one   *)
(* entry point (op) on one simulator world.                                *)
(*                                                                         *)
(* The simulator (carla.Map, carla.Waypoint, carla.Actor) is external.     *)
(* Geometry (locations, rotations, bounding boxes, geolocations) is left   *)
(* out of the records: no statement below reads it.  What the code reads   *)
(* of a waypoint is its id, road_id, lane_id, location.z and next(); of an *)
(* actor its id, type_id and attributes.                                   *)
(***************************************************************************)
EXTENDS Integers, Sequences, FiniteSets, TLC

\* Number of waypoints the map holds at most.
NumWp == 5
\* Number of edges get_topology() returns at most.
MaxTopo == 2
\* Number of live actors at most.
NumActors == 2

\* road_id and lane_id values of the waypoints.
RoadIds == {1, 2}
LaneIds == {-2, -1, 1}

\* left_lane_waypoint_id / right_lane_waypoint_id when there is no such lane.
NoNeighbour == -1

\* None, and Some(x), for a Python value that may be None.
None == <<>>
Some(x) == <<x>>

NoExc == [type |-> "", line |-> 0]
Exc(t, l) == [type |-> t, line |-> l]

VARIABLES
    op,             \* the entry point called
    pc,             \* position in it; "done" = returned, "raised" = exception left it
    exc,            \* the exception that left it: its type and the line raising it
    \* -- the carla map, disclosed as the code queries it
    road_id,        \* road_id[w] of the waypoints read so far (waypoint = its id)
    lane_id,        \* lane_id[w] of the topology start waypoints read so far
    loc_z,          \* transform.location.z of the topology start waypoints
    next_res,       \* next_res[w]: the list w.next(precision) returns, once asked
    asked,          \* the waypoints whose next() has been asked
    \* -- get_scene_layout
    topology, ti, waypoints, nxt, map_dict, waypoints_graph,
    \* -- get_dynamic_objects
    actors, vehicles, traffic_lights, speed_limits, walkers, stops, hero, dyn_ret,
    \* -- World / main
    fail_at, data, logged, self_world

carla_map == <<road_id, lane_id, loc_z, next_res, asked>>
layout == <<topology, ti, waypoints, nxt, map_dict, waypoints_graph>>
dynamic == <<actors, vehicles, traffic_lights, speed_limits, walkers, stops,
             hero, dyn_ret>>
world == <<fail_at, data, logged, self_world>>
vars == <<op, pc, exc, carla_map, layout, dynamic, world>>

Min(a, b) == IF a <= b THEN a ELSE b

\* dict[key] = value, adding the key when it is new.
Put(d, key, value) ==
    [x \in DOMAIN d \cup {key} |-> IF x = key THEN value ELSE d[x]]

EmptyDict == [x \in {} |-> 0]

(***************************************************************************)
(* get_scene_layout                                                        *)
(***************************************************************************)

\* transform.location.z of the n topology start waypoints.  The heights
\* alternate, so that the sort of line 52 both reorders the topology and
\* meets equal keys; which start is which is a matter of naming, every
\* other attribute of a waypoint being free.
StartHeights(n) == [i \in 1..n |-> i % 2]

\* carla_map.get_topology(): pairs (start, end); the starts are waypoints
\* 1 .. n.  Only x[0] of a pair is read.
get_topology == [i \in 1..Len(loc_z) |-> <<i, i>>]

\* sorted(seq, key=z): Python's sort is stable.
RECURSIVE SortedByZ(_)
SortedByZ(seq) ==
    IF seq = <<>> THEN <<>>
    ELSE LET s == SortedByZ(SubSeq(seq, 1, Len(seq) - 1))
             x == seq[Len(seq)]
             p == Cardinality({i \in 1..Len(s) : loc_z[s[i]] <= loc_z[x]})
         IN  SubSeq(s, 1, p) \o <<x>> \o SubSeq(s, p + 1, Len(s))

\* The lists w.next(precision) may return: the remembered one when asked
\* before (the map does not change during a call); else an empty list, a
\* waypoint already known, or a waypoint not seen so far.  next_res has an
\* entry for every waypoint known.
NextLists(w) ==
    IF w \in asked THEN {next_res[w]}
    ELSE {<<>>} \cup {<<n>> : n \in 1..Min(Len(next_res) + 1, NumWp)}

\* The values w.road_id may have: the one read before, else any.
Roads(w) == IF w \in DOMAIN road_id THEN {road_id[w]} ELSE RoadIds

\* The map after w.next(precision) returned res, with rw the road_id of w
\* and r the road_id of the waypoint returned: line 60 reads both.
Disclose(w, rw, res, r) ==
    LET fresh == res # <<>> /\ res[1] > Len(next_res)
    IN  /\ rw \in Roads(w)
        /\ res # <<>> => r \in (IF res[1] = w THEN {rw} ELSE Roads(res[1]))
        /\ road_id' = IF res = <<>> THEN Put(road_id, w, rw)
                      ELSE Put(Put(road_id, w, rw), res[1], r)
        /\ next_res' = [(IF fresh THEN Append(next_res, <<>>) ELSE next_res)
                            EXCEPT ![w] = res]
        /\ asked' = asked \cup {w}
        /\ UNCHANGED <<lane_id, loc_z>>

\* The map after waypoint.lane_id was read as l.  A start waypoint's lane_id
\* is read once, at line 75.
DiscloseLane(w, l) ==
    /\ lane_id' = Put(lane_id, w, l)
    /\ UNCHANGED <<road_id, loc_z, next_res, asked>>

\* No walk collects more than every waypoint once and one of them again.
MaxWalk == NumWp + 1

waypoint == topology[ti]

\* Lines 51-52.
GetTopology ==
    /\ op = "get_scene_layout" /\ pc = "topology"
    /\ topology' = SortedByZ([i \in 1..Len(get_topology) |-> get_topology[i][1]])
    /\ ti' = 1
    /\ pc' = "for"
    /\ UNCHANGED <<op, exc, carla_map, waypoints, nxt, map_dict, waypoints_graph,
                   dynamic, world>>

\* Lines 57-59: the next topology waypoint; nxt = waypoint.next(precision)[0].
ForWaypoint ==
    /\ op = "get_scene_layout" /\ pc = "for" /\ ti <= Len(topology)
    /\ waypoints' = <<waypoint>>
    /\ \E res \in NextLists(waypoint), rw \in RoadIds, r \in RoadIds :
          /\ Disclose(waypoint, rw, res, r)
          /\ IF res = <<>>
             THEN pc' = "raised" /\ exc' = Exc("IndexError", 59) /\ nxt' = nxt
             ELSE pc' = "while" /\ exc' = exc /\ nxt' = res[1]
    /\ UNCHANGED <<op, topology, ti, map_dict, waypoints_graph, dynamic, world>>

\* Lines 60-62: nxt is on the start's road.
WhileAppend ==
    /\ op = "get_scene_layout" /\ pc = "while"
    /\ road_id[nxt] = road_id[waypoint]
    /\ Len(waypoints) < MaxWalk
    /\ waypoints' = Append(waypoints, nxt)
    /\ \E res \in NextLists(nxt), r \in RoadIds :
          /\ Disclose(nxt, road_id[nxt], res, r)
          /\ IF res = <<>>
             THEN pc' = "raised" /\ exc' = Exc("IndexError", 62) /\ nxt' = nxt
             ELSE pc' = "while" /\ exc' = exc /\ nxt' = res[1]
    /\ UNCHANGED <<op, topology, ti, map_dict, waypoints_graph, dynamic, world>>

\* Line 60: nxt is on another road, the loop ends.
WhileExit ==
    /\ op = "get_scene_layout" /\ pc = "while"
    /\ road_id[nxt] # road_id[waypoint]
    /\ pc' = "store"
    /\ UNCHANGED <<op, exc, carla_map, layout, dynamic, world>>

\* Lines 73-75: map_dict[road][lane] = lane, whatever was there.
StoredLane(md, road, lane_key, wps) ==
    Put(md, road,
        Put(IF road \in DOMAIN md THEN md[road] ELSE EmptyDict,
            lane_key, [waypoints |-> wps]))

\* Lines 64-75.
StoreLane ==
    /\ op = "get_scene_layout" /\ pc = "store"
    /\ \E l \in LaneIds :
          /\ DiscloseLane(waypoint, l)
          /\ map_dict' = StoredLane(map_dict, road_id[waypoint], l, waypoints)
    /\ ti' = ti + 1
    /\ pc' = "for"
    /\ UNCHANGED <<op, exc, topology, waypoints, nxt, waypoints_graph,
                   dynamic, world>>

\* Variant: the slice taken from i instead of i + 1.
NextIds_FromI(wps, i) == SubSeq(wps, i, Len(wps))
\* Line 86.
NextIds(wps, i) == SubSeq(wps, i + 1, Len(wps))

\* Variants: the neighbour key without the step over 0.
LeftLaneKey_NoSkip(lane_key) == lane_key - 1
RightLaneKey_NoSkip(lane_key) == lane_key + 1
\* Lines 89-90.
LeftLaneKey(lane_key) == IF lane_key - 1 # 0 THEN lane_key - 1 ELSE lane_key - 2
RightLaneKey(lane_key) == IF lane_key + 1 # 0 THEN lane_key + 1 ELSE lane_key + 2

\* Variant: a position past the end of the neighbour's list read as "no
\* neighbour" instead of raising.
LaneLookup_Clamped(road, key, i) ==
    IF key \notin DOMAIN map_dict[road] \/ i > Len(map_dict[road][key].waypoints)
    THEN [raised |-> FALSE, id |-> NoNeighbour]
    ELSE [raised |-> FALSE, id |-> map_dict[road][key].waypoints[i]]

\* Lines 93-95 and 97-99: the id at index i of lane key of the road, the
\* sentinel when the road has no such lane; a list shorter than i raises.
\* Indexes count from 1 here, from 0 in the source.
LaneLookup(road, key, i) ==
    IF key \notin DOMAIN map_dict[road]
    THEN [raised |-> FALSE, id |-> NoNeighbour]
    ELSE IF i > Len(map_dict[road][key].waypoints)
         THEN [raised |-> TRUE, id |-> NoNeighbour]
         ELSE [raised |-> FALSE, id |-> map_dict[road][key].waypoints[i]]

\* Lines 112-122, without the positions.
WaypointDict(road, lane_key, i) ==
    [road_id |-> road,
     lane_id |-> lane_key,
     next_waypoints_ids |-> NextIds(map_dict[road][lane_key].waypoints, i),
     left_lane_waypoint_id |-> LaneLookup(road, LeftLaneKey(lane_key), i).id,
     right_lane_waypoint_id |-> LaneLookup(road, RightLaneKey(lane_key), i).id]

\* Lines 85-123 for i = from .. len: each record stored under its id, a
\* later one replacing an earlier one of the same id.
RECURSIVE GraphWithLane(_, _, _, _)
GraphWithLane(g, road, lane_key, from) ==
    LET wps == map_dict[road][lane_key].waypoints
    IN  IF from > Len(wps) THEN g
        ELSE GraphWithLane(Put(g, wps[from], WaypointDict(road, lane_key, from)),
                           road, lane_key, from + 1)

\* The positions of the lane at which a neighbour lookup raises.
RaisingAt(road, lane_key) ==
    {i \in 1..Len(map_dict[road][lane_key].waypoints) :
        \/ LaneLookup(road, LeftLaneKey(lane_key), i).raised
        \/ LaneLookup(road, RightLaneKey(lane_key), i).raised}

\* The line that raises in the lane: the first position that raises, the
\* left lookup (line 95) before the right one (line 99).
RaisingLine(road, lane_key) ==
    LET bad == RaisingAt(road, lane_key)
        first == CHOOSE i \in bad : \A j \in bad : i <= j
    IN  IF LaneLookup(road, LeftLaneKey(lane_key), first).raised THEN 95 ELSE 99

\* The (road, lane) keys of map_dict.
LaneKeys == {rk \in (DOMAIN map_dict) \X LaneIds : rk[2] \in DOMAIN map_dict[rk[1]]}

RECURSIVE Perms(_)
Perms(S) ==
    IF S = {} THEN {<<>>}
    ELSE UNION {{<<x>> \o p : p \in Perms(S \ {x})} : x \in S}

\* The orders in which lines 80-81 may visit the lanes: the order of a
\* dict's keys is the interpreter's, so any order of the roads and, within
\* a road, any order of its lanes.
KeyOrders ==
    {o \in Perms(LaneKeys) :
        \A i, j, k \in 1..Len(o) :
            (i < j /\ j < k /\ o[i][1] = o[k][1]) => o[j][1] = o[i][1]}

\* Lines 80-123 from the n-th lane of the order on: the graph, or the line
\* that raised.
RECURSIVE Generate(_, _, _)
Generate(g, order, n) ==
    IF n > Len(order) THEN [raised |-> FALSE, line |-> 0, graph |-> g]
    ELSE IF RaisingAt(order[n][1], order[n][2]) # {}
         THEN [raised |-> TRUE, line |-> RaisingLine(order[n][1], order[n][2]),
               graph |-> EmptyDict]
         ELSE Generate(GraphWithLane(g, order[n][1], order[n][2], 1), order, n + 1)

\* Line 57 with the topology exhausted, then lines 79-125.
GenerateGraph ==
    /\ op = "get_scene_layout" /\ pc = "for" /\ ti > Len(topology)
    /\ \E order \in KeyOrders :
          LET res == Generate(EmptyDict, order, 1)
          IN  IF res.raised
              THEN /\ pc' = "raised" /\ exc' = Exc("IndexError", res.line)
                   /\ waypoints_graph' = waypoints_graph
              ELSE /\ pc' = "done" /\ exc' = exc
                   /\ waypoints_graph' = res.graph
    /\ UNCHANGED <<op, carla_map, topology, ti, waypoints, nxt, map_dict,
                   dynamic, world>>

(***************************************************************************)
(* get_dynamic_objects                                                     *)
(***************************************************************************)

\* A Python str is the sequence of its characters.
\* "vehicle"
Str_vehicle ==
    <<"v", "e", "h", "i", "c", "l", "e">>
\* "traffic_light"
Str_traffic_light ==
    <<"t", "r", "a", "f", "f", "i", "c", "_", "l", "i", "g", "h", "t">>
\* "speed_limit"
Str_speed_limit ==
    <<"s", "p", "e", "e", "d", "_", "l", "i", "m", "i", "t">>
\* "walker"
Str_walker ==
    <<"w", "a", "l", "k", "e", "r">>
\* "stop"
Str_stop ==
    <<"s", "t", "o", "p">>

\* The type_id values of the actors.
\* "vehicle.audi.tt"
Type_audi ==
    <<"v", "e", "h", "i", "c", "l", "e", ".", "a", "u", "d", "i", ".", "t", "t">>
\* "traffic.traffic_light"
Type_light ==
    <<"t", "r", "a", "f", "f", "i", "c", ".", "t", "r", "a", "f", "f", "i", "c",
      "_", "l", "i", "g", "h", "t">>
\* "traffic.speed_limit.30"
Type_limit30 ==
    <<"t", "r", "a", "f", "f", "i", "c", ".", "s", "p", "e", "e", "d", "_", "l",
      "i", "m", "i", "t", ".", "3", "0">>
\* "walker.pedestrian.0001"
Type_pedestrian ==
    <<"w", "a", "l", "k", "e", "r", ".", "p", "e", "d", "e", "s", "t", "r", "i",
      "a", "n", ".", "0", "0", "0", "1">>
\* "traffic.stop"
Type_stop ==
    <<"t", "r", "a", "f", "f", "i", "c", ".", "s", "t", "o", "p">>
\* "sensor.camera.rgb"
Type_camera ==
    <<"s", "e", "n", "s", "o", "r", ".", "c", "a", "m", "e", "r", "a", ".", "r",
      "g", "b">>
\* "traffic.speed_limit": no third part
Type_limit_bare ==
    <<"t", "r", "a", "f", "f", "i", "c", ".", "s", "p", "e", "e", "d", "_", "l",
      "i", "m", "i", "t">>
\* "static.prop.stop_vehicle": two of the five substrings
Type_stop_vehicle ==
    <<"s", "t", "a", "t", "i", "c", ".", "p", "r", "o", "p", ".", "s", "t", "o",
      "p", "_", "v", "e", "h", "i", "c", "l", "e">>

TypeIds ==
    {Type_audi, Type_light, Type_limit30, Type_pedestrian, Type_stop, Type_camera,
     Type_limit_bare, Type_stop_vehicle}

\* actor.attributes, a dict, as its set of (key, value) pairs.
RoleNames == {"hero", "autopilot"}
AttributeDicts == {{}} \cup {{<<"role_name", r>>} : r \in RoleNames}
HasKey(d, key) == \E kv \in d : kv[1] = key
Get(d, key) == (CHOOSE kv \in d : kv[1] = key)[2]

\* actor.id of the i-th actor of world.get_actors(): distinct, and not i.
ActorId(i) == 40 + i

\* Python's  sub in s  on strings.
Contains(sub, s) ==
    \E i \in 1..(Len(s) - Len(sub) + 1) : SubSeq(s, i, i + Len(sub) - 1) = sub

\* Lines 161-170: the branch of the if/elif chain an actor takes.
IsVehicle(type_id) == Contains(Str_vehicle, type_id)
IsTrafficLight(type_id) ==
    /\ ~Contains(Str_vehicle, type_id)
    /\ Contains(Str_traffic_light, type_id)
IsSpeedLimit(type_id) ==
    /\ ~Contains(Str_vehicle, type_id)
    /\ ~Contains(Str_traffic_light, type_id)
    /\ Contains(Str_speed_limit, type_id)
IsWalker(type_id) ==
    /\ ~Contains(Str_vehicle, type_id)
    /\ ~Contains(Str_traffic_light, type_id)
    /\ ~Contains(Str_speed_limit, type_id)
    /\ Contains(Str_walker, type_id)
\* The last branch without the elif: every actor whose type holds "stop".
IsStop_NoElif(type_id) == Contains(Str_stop, type_id)
IsStop(type_id) ==
    /\ ~Contains(Str_vehicle, type_id)
    /\ ~Contains(Str_traffic_light, type_id)
    /\ ~Contains(Str_speed_limit, type_id)
    /\ ~Contains(Str_walker, type_id)
    /\ Contains(Str_stop, type_id)

\* Lines 154-171: the five lists, each in the order of actors.
split_actors(as) ==
    LET V(a) == IsVehicle(a.type_id)
        T(a) == IsTrafficLight(a.type_id)
        L(a) == IsSpeedLimit(a.type_id)
        W(a) == IsWalker(a.type_id)
        S(a) == IsStop(a.type_id)
    IN  <<SelectSeq(as, V), SelectSeq(as, T), SelectSeq(as, L), SelectSeq(as, W),
          SelectSeq(as, S)>>

\* Lines 259-260.
SplitActors ==
    /\ op = "get_dynamic_objects" /\ pc = "actors"
    /\ LET lists == split_actors(actors)
       IN  /\ vehicles' = lists[1]
           /\ traffic_lights' = lists[2]
           /\ speed_limits' = lists[3]
           /\ walkers' = lists[4]
           /\ stops' = lists[5]
    /\ pc' = "hero"
    /\ UNCHANGED <<op, exc, carla_map, layout, actors, hero, dyn_ret, world>>

\* Every vehicle taken for a hero: the role is not looked at.
hero_vehicles_AnyRole(vs) == vs
\* Line 262, when every vehicle has a role_name.
hero_vehicles(vs) ==
    LET H(vehicle) == /\ Contains(Str_vehicle, vehicle.type_id)
                      /\ Get(vehicle.attributes, "role_name") = "hero"
    IN  SelectSeq(vs, H)

\* Lines 262-263: attributes['role_name'] of a vehicle without that key is a
\* KeyError; random.choice may return any element.
SelectHero ==
    /\ op = "get_dynamic_objects" /\ pc = "hero"
    /\ IF \E i \in 1..Len(vehicles) : ~HasKey(vehicles[i].attributes, "role_name")
       THEN pc' = "raised" /\ exc' = Exc("KeyError", 262) /\ hero' = hero
       ELSE /\ pc' = "build" /\ exc' = exc
            /\ LET hv == hero_vehicles(vehicles)
               IN  IF Len(hv) = 0 THEN hero' = None
                   ELSE \E i \in 1..Len(hv) : hero' = Some(hv[i])
    /\ UNCHANGED <<op, carla_map, layout, actors, vehicles, traffic_lights,
                   speed_limits, walkers, stops, dyn_ret, world>>

\* The index of the last element of list whose id is k: a later entry of a
\* dict replaces an earlier one of the same key.
LastWithId(list, k) ==
    CHOOSE i \in 1..Len(list) :
        list[i].id = k /\ \A j \in (i + 1)..Len(list) : list[j].id # k
Ids(list) == {list[i].id : i \in 1..Len(list)}

\* str.split('.')
RECURSIVE Split(_)
Split(s) ==
    IF \A i \in 1..Len(s) : s[i] # "."
    THEN <<s>>
    ELSE LET d == CHOOSE i \in 1..Len(s) :
                      s[i] = "." /\ \A j \in 1..(i - 1) : s[j] # "."
         IN  <<SubSeq(s, 1, d - 1)>> \o Split(SubSeq(s, d + 1, Len(s)))

Digits == <<"0", "1", "2", "3", "4", "5", "6", "7", "8", "9">>
DigitValue(c) == (CHOOSE i \in 1..10 : Digits[i] = c) - 1
IsDigit(c) == \E i \in 1..10 : Digits[i] = c

\* int(s) of a string of decimal digits.
RECURSIVE ParseInt(_)
ParseInt(s) ==
    IF s = <<>> THEN 0
    ELSE 10 * ParseInt(SubSeq(s, 1, Len(s) - 1)) + DigitValue(s[Len(s)])

\* Line 253: int(type_id.split('.')[2]); "" when it does not raise.
SpeedError(type_id) ==
    LET parts == Split(type_id)
    IN  IF Len(parts) < 3 THEN "IndexError"
        ELSE IF parts[3] = <<>> \/ \E i \in 1..Len(parts[3]) : ~IsDigit(parts[3][i])
             THEN "ValueError"
             ELSE ""
Speed(type_id) == ParseInt(Split(type_id)[3])

\* The dicts of lines 179-183, 192-197, 206-211, 236-241 and 250-254, without
\* positions, orientations, states and volumes.
st_dict(stop) == [id |-> stop.id]
tl_dict(traffic_light) == [id |-> traffic_light.id]
v_dict(vehicle) == [id |-> vehicle.id]
w_dict(walker) == [id |-> walker.id]
sl_dict(speed_limit) == [id |-> speed_limit.id, speed |-> Speed(speed_limit.type_id)]

\* Entries stored under the position in the list instead of the id.
get_stop_signals_ByIndex(list) == [k \in 1..Len(list) |-> st_dict(list[k])]
\* Lines 174-185.
get_stop_signals(list) == [k \in Ids(list) |-> st_dict(list[LastWithId(list, k)])]
\* Lines 187-199.
get_traffic_lights(list) == [k \in Ids(list) |-> tl_dict(list[LastWithId(list, k)])]
\* Lines 201-213.
get_vehicles(list) == [k \in Ids(list) |-> v_dict(list[LastWithId(list, k)])]
\* Lines 231-243.
get_walkers(list) == [k \in Ids(list) |-> w_dict(list[LastWithId(list, k)])]
\* Lines 245-256, when no entry raises.
get_speed_limits(list) == [k \in Ids(list) |-> sl_dict(list[LastWithId(list, k)])]

\* Lines 215-229, without the position and the hero's road and lane.
get_hero_vehicle(hero_vehicle) ==
    IF hero_vehicle = None THEN None ELSE Some([id |-> hero_vehicle[1].id])

\* Lines 265-272: only get_speed_limits reads what the model holds and may
\* raise on it; the first speed limit that raises decides the exception.
BuildResult ==
    /\ op = "get_dynamic_objects" /\ pc = "build"
    /\ LET bad == {i \in 1..Len(speed_limits) : SpeedError(speed_limits[i].type_id) # ""}
           first == CHOOSE i \in bad : \A j \in bad : i <= j
       IN  IF bad # {}
           THEN /\ pc' = "raised"
                /\ exc' = Exc(SpeedError(speed_limits[first].type_id), 253)
                /\ dyn_ret' = dyn_ret
           ELSE /\ pc' = "done" /\ exc' = exc
                /\ dyn_ret' = Some([vehicles |-> get_vehicles(vehicles),
                                    hero_vehicle |-> get_hero_vehicle(hero),
                                    walkers |-> get_walkers(walkers),
                                    traffic_lights |-> get_traffic_lights(traffic_lights),
                                    stop_signs |-> get_stop_signals(stops),
                                    speed_limits |-> get_speed_limits(speed_limits)])
    /\ UNCHANGED <<op, carla_map, layout, actors, vehicles, traffic_lights,
                   speed_limits, walkers, stops, hero, world>>

(***************************************************************************)
(* World and main                                                          *)
(***************************************************************************)

\* The call of the simulator client that raises, "" when none does.
FailPoints == {"", "Client", "set_timeout", "get_world", "get_map"}

\* Lines 343-344: main's own client, outside any try.
MainClient ==
    /\ op = "main" /\ pc = "main"
    /\ IF fail_at = "Client" THEN pc' = "raised" /\ exc' = Exc("RuntimeError", 343)
       ELSE IF fail_at = "set_timeout"
            THEN pc' = "raised" /\ exc' = Exc("RuntimeError", 344)
            ELSE pc' = "get_data" /\ exc' = exc
    /\ UNCHANGED <<op, carla_map, layout, dynamic, world>>

\* Lines 286-296: the tuple, or the exception logged and None returned (the
\* function ends without a return statement).
GetDataFromCarla ==
    /\ op \in {"World", "main"} /\ pc = "get_data"
    /\ IF fail_at = ""
       THEN data' = Some(<<"world", "town_map">>) /\ logged' = logged
       ELSE data' = None /\ logged' = TRUE
    /\ pc' = "unpack"
    /\ UNCHANGED <<op, exc, carla_map, layout, dynamic, fail_at, self_world>>

\* Line 283: self.world, self.town_map = <what _get_data_from_carla returned>;
\* unpacking None is a TypeError.
InitUnpack ==
    /\ op \in {"World", "main"} /\ pc = "unpack"
    /\ IF data = None
       THEN pc' = "raised" /\ exc' = Exc("TypeError", 283) /\ self_world' = self_world
       ELSE /\ pc' = IF op = "main" THEN "tick" ELSE "done"
            /\ exc' = exc
            /\ self_world' = data
    /\ UNCHANGED <<op, carla_map, layout, dynamic, fail_at, data, logged>>

\* Lines 348-349 and 300-302: tick does nothing, for ever.
Tick ==
    /\ op = "main" /\ pc = "tick"
    /\ UNCHANGED vars

LayoutIdle ==
    /\ topology = <<>> /\ ti = 0 /\ waypoints = <<>> /\ nxt = 0
    /\ map_dict = EmptyDict
    /\ waypoints_graph = EmptyDict

MapIdle ==
    /\ road_id = EmptyDict /\ lane_id = EmptyDict /\ loc_z = <<>> /\ next_res = <<>>
    /\ asked = {}

DynamicIdle ==
    /\ actors = <<>> /\ vehicles = <<>> /\ traffic_lights = <<>>
    /\ speed_limits = <<>> /\ walkers = <<>> /\ stops = <<>>
    /\ hero = None /\ dyn_ret = None

WorldIdle ==
    /\ fail_at = "" /\ data = None /\ logged = FALSE /\ self_world = None

\* A call of get_scene_layout(world, carla_map) on a map of n topology edges.
InitLayout ==
    /\ op = "get_scene_layout" /\ pc = "topology" /\ exc = NoExc
    /\ \E n \in 0..MaxTopo :
          /\ loc_z = StartHeights(n)
          /\ next_res = [i \in 1..n |-> <<>>]
    /\ road_id = EmptyDict /\ lane_id = EmptyDict
    /\ asked = {}
    /\ LayoutIdle /\ DynamicIdle /\ WorldIdle

\* A call of get_dynamic_objects(carla_world, carla_map) on a world of n actors.
InitDynamic ==
    /\ op = "get_dynamic_objects" /\ pc = "actors" /\ exc = NoExc
    /\ \E n \in 0..NumActors :
          \E types \in [1..n -> TypeIds], attrs \in [1..n -> AttributeDicts] :
              actors = [i \in 1..n |-> [id |-> ActorId(i), type_id |-> types[i],
                                        attributes |-> attrs[i]]]
    /\ vehicles = <<>> /\ traffic_lights = <<>> /\ speed_limits = <<>>
    /\ walkers = <<>> /\ stops = <<>> /\ hero = None /\ dyn_ret = None
    /\ MapIdle /\ LayoutIdle /\ WorldIdle

\* World(host, port, timeout), called directly or by main().
InitWorld ==
    /\ op \in {"World", "main"}
    /\ pc = (IF op = "main" THEN "main" ELSE "get_data")
    /\ exc = NoExc
    /\ fail_at \in FailPoints
    /\ data = None /\ logged = FALSE /\ self_world = None
    /\ MapIdle /\ LayoutIdle /\ DynamicIdle

Init == InitLayout \/ InitDynamic \/ InitWorld

Next ==
    \/ GetTopology \/ ForWaypoint \/ WhileAppend \/ WhileExit \/ StoreLane
    \/ GenerateGraph
    \/ SplitActors \/ SelectHero \/ BuildResult
    \/ MainClient \/ GetDataFromCarla \/ InitUnpack \/ Tick

Spec == Init /\ [][Next]_vars

(***************************************************************************)
(* Properties                                                              *)
(***************************************************************************)

Layout == op = "get_scene_layout"
Dynamic == op = "get_dynamic_objects"
LaneList(rk) == map_dict[rk[1]][rk[2]].waypoints
\* The positions (road, lane, index) of the lane lists.
Positions == {p \in LaneKeys \X (1..MaxWalk) : p[2] <= Len(LaneList(p[1]))}
WaypointAt(p) == LaneList(p[1])[p[2]]
\* The lane keys next to lane k: k - 1 and k + 1, stepping over 0.
LeftOf(k) == IF k = 1 THEN -1 ELSE k - 1
RightOf(k) == IF k = -1 THEN 1 ELSE k + 1
\* The id at index i of lane key of the road, -1 when the road has no such lane.
Beside(road, key, i) ==
    IF key \in DOMAIN map_dict[road] THEN map_dict[road][key].waypoints[i] ELSE -1
AdjacencyAsStated(p) ==
    LET g == waypoints_graph[WaypointAt(p)]
    IN  /\ g.left_lane_waypoint_id = Beside(p[1][1], LeftOf(p[1][2]), p[2])
        /\ g.right_lane_waypoint_id = Beside(p[1][1], RightOf(p[1][2]), p[2])
OccursOnce(p) == \A q \in Positions : WaypointAt(q) = WaypointAt(p) => q = p

\* The five substrings, and the number of places an actor has in the lists.
Substrings == {Str_vehicle, Str_traffic_light, Str_speed_limit, Str_walker, Str_stop}
Matching(type_id) == {sub \in Substrings : Contains(sub, type_id)}
Places(a, list) == Cardinality({i \in 1..Len(list) : list[i] = a})
Placed(a) ==
    Places(a, vehicles) + Places(a, traffic_lights) + Places(a, speed_limits)
        + Places(a, walkers) + Places(a, stops)

\* C1: once the actors are split, every actor has at most one place in the
\* five lists; exactly one when its type name holds one of the five
\* substrings, none (and no exception) when it holds none.
C1_PartitionExclusiveExhaustive ==
    (Dynamic /\ pc # "actors") =>
        /\ \A i \in 1..Len(actors) :
              /\ Placed(actors[i]) <= 1
              /\ Matching(actors[i].type_id) # {} => Placed(actors[i]) = 1
              /\ Matching(actors[i].type_id) = {} => Placed(actors[i]) = 0
        /\ pc = "raised" => exc.line \notin 154..171

C1_Witness ==
    /\ Dynamic /\ pc = "hero"
    /\ \E i, j \in 1..Len(actors) :
          /\ Cardinality(Matching(actors[i].type_id)) >= 2 /\ Placed(actors[i]) = 1
          /\ Matching(actors[j].type_id) = {} /\ Placed(actors[j]) = 0

\* The vehicles whose role attribute is "hero".
Heroes ==
    {a \in {actors[i] : i \in 1..Len(actors)} :
        Contains(Str_vehicle, a.type_id) /\ <<"role_name", "hero">> \in a.attributes}

\* C2: in a returned result, hero_vehicle is None when no vehicle has the
\* role "hero", and otherwise carries the id of one of the vehicles that have.
C2_HeroIsAHero ==
    (Dynamic /\ pc = "done") =>
        LET h == dyn_ret[1].hero_vehicle
        IN  /\ Heroes = {} => h = None
            /\ Heroes # {} => (h # None /\ h[1].id \in {a.id : a \in Heroes})

C2_Witness ==
    /\ Dynamic /\ pc = "done"
    /\ Cardinality(Heroes) = 1
    /\ Len(vehicles) = 2
    /\ dyn_ret[1].hero_vehicle # None

\* C3 as stated: in a returned graph, the record of the waypoint at every
\* position i of every lane k of every road r names, left and right, the
\* waypoint at index i of lanes k - 1 and k + 1 (stepping over 0) of r, or -1.
C3_AdjacencyAtEveryPosition ==
    (Layout /\ pc = "done") => \A p \in Positions : AdjacencyAsStated(p)

\* C3, amended: the same, for every position whose waypoint occurs at no
\* other position of the lane lists.
C3_AdjacencyWhereIdOccursOnce ==
    (Layout /\ pc = "done") =>
        \A p \in Positions : OccursOnce(p) => AdjacencyAsStated(p)

C3_Witness ==
    /\ Layout /\ pc = "done"
    /\ \E p \in Positions :
          /\ p[2] = 2
          /\ OccursOnce(p)
          /\ waypoints_graph[WaypointAt(p)].left_lane_waypoint_id # -1
          /\ waypoints_graph[WaypointAt(p)].right_lane_waypoint_id = -1

\* C4: in a returned graph, next_waypoints_ids of the waypoint at position i
\* of a lane list names only waypoints at later positions of that list, and
\* is empty for the last position.
C4_SuccessorsComeLater ==
    (Layout /\ pc = "done") =>
        \A p \in Positions :
            LET ids == waypoints_graph[WaypointAt(p)].next_waypoints_ids
                lane == LaneList(p[1])
            IN  /\ \A j \in 1..Len(ids) :
                      \E q \in (p[2] + 1)..Len(lane) : lane[q] = ids[j]
                /\ p[2] = Len(lane) => ids = <<>>

C4_Witness ==
    /\ Layout /\ pc = "done"
    /\ \E p \in Positions :
          /\ Len(LaneList(p[1])) >= 3
          /\ p[2] = 1
          /\ Len(waypoints_graph[WaypointAt(p)].next_waypoints_ids) = 2

\* The waypoints the walk from start collects: start, then each successor
\* on start's road.
RECURSIVE WalkFrom(_, _, _)
WalkFrom(start, w, fuel) ==
    {w} \cup
        (IF fuel > 0 /\ w \in asked /\ next_res[w] # <<>>
            /\ road_id[next_res[w][1]] = road_id[start]
         THEN WalkFrom(start, next_res[w][1], fuel - 1)
         ELSE {})
Collected == UNION {WalkFrom(topology[i], topology[i], NumWp) : i \in 1..Len(topology)}

\* C5: in a returned graph, every waypoint collected by the walk from any
\* topology start is a key, and so is every id a next_waypoints_ids names.
C5_EveryCollectedWaypointIsAKey ==
    (Layout /\ pc = "done") =>
        /\ Collected \subseteq DOMAIN waypoints_graph
        /\ \A a \in DOMAIN waypoints_graph :
              \A j \in 1..Len(waypoints_graph[a].next_waypoints_ids) :
                  waypoints_graph[a].next_waypoints_ids[j] \in DOMAIN waypoints_graph

KeyedById(mapping, list) ==
    /\ DOMAIN mapping = {list[i].id : i \in 1..Len(list)}
    /\ \A k \in DOMAIN mapping : mapping[k].id = k

\* C6: in a returned result, the keys of each of the five mappings are the
\* ids of the actors of its category, and the record under a key has that id.
C6_MappingsKeyedById ==
    (Dynamic /\ pc = "done") =>
        /\ KeyedById(dyn_ret[1].vehicles, vehicles)
        /\ KeyedById(dyn_ret[1].walkers, walkers)
        /\ KeyedById(dyn_ret[1].traffic_lights, traffic_lights)
        /\ KeyedById(dyn_ret[1].stop_signs, stops)
        /\ KeyedById(dyn_ret[1].speed_limits, speed_limits)

C6_Witness ==
    /\ Dynamic /\ pc = "done"
    /\ Len(stops) = 1 /\ Len(speed_limits) = 1
    /\ DOMAIN dyn_ret[1].stop_signs = {stops[1].id}

\* A lane has, on its road, a neighbour lane with a shorter waypoint list.
ShorterNeighbour ==
    \E rk \in LaneKeys :
        \E key \in {LeftOf(rk[2]), RightOf(rk[2])} \cap DOMAIN map_dict[rk[1]] :
            Len(map_dict[rk[1]][key].waypoints) < Len(LaneList(rk))

\* C7: when the graph is generated from lanes one of which has a shorter
\* neighbour, an IndexError of a neighbour lookup (line 95 or 99) leaves
\* get_scene_layout, and no graph is returned.
C7_ShorterNeighbourRaises ==
    [][(Layout /\ pc = "for" /\ ti > Len(topology) /\ ShorterNeighbour) =>
          /\ pc' = "raised"
          /\ exc'.type = "IndexError" /\ exc'.line \in {95, 99}
          /\ waypoints_graph' = EmptyDict]_vars

C7_Witness ==
    /\ Layout /\ pc = "raised" /\ exc.line \in {95, 99}
    /\ ShorterNeighbour

\* C8: when a call of the simulator client raises while a World is
\* constructed, the failure is logged and no exception leaves the constructor.
C8_ConstructorSwallowsFailure ==
    (op \in {"World", "main"} /\ fail_at # "" /\ pc \in {"done", "tick", "raised"}
        /\ (pc = "raised" => exc.line = 283))
    => (logged /\ pc # "raised")

\* C9: when the walk from a topology start is over, it stopped at a successor
\* on another road, the first such, and the list is the start followed by
\* the successors visited before.
C9_WalkStopsAtRoadChange ==
    (Layout /\ (pc = "store" \/ (pc = "raised" /\ exc.line \in {59, 62}))) =>
        LET n == Len(waypoints)
        IN  /\ waypoints[1] = waypoint
            /\ next_res[waypoints[n]] # <<>>
            /\ road_id[next_res[waypoints[n]][1]] # road_id[waypoint]
            /\ \A i \in 1..(n - 1) :
                  /\ next_res[waypoints[i]] = <<waypoints[i + 1]>>
                  /\ road_id[waypoints[i + 1]] = road_id[waypoint]

\* C10: in a returned graph whose waypoints each occur at one position, left
\* and right are inverse to each other, and lanes next to each other have
\* lists of equal length.  (No lane has key 0: LaneIds.)
C10_AdjacencySymmetric ==
    (Layout /\ pc = "done" /\ \A p \in Positions : OccursOnce(p)) =>
        /\ \A a \in DOMAIN waypoints_graph :
              LET l == waypoints_graph[a].left_lane_waypoint_id
                  r == waypoints_graph[a].right_lane_waypoint_id
              IN  /\ l # -1 => waypoints_graph[l].right_lane_waypoint_id = a
                  /\ r # -1 => waypoints_graph[r].left_lane_waypoint_id = a
        /\ \A rk \in LaneKeys :
              \A key \in {LeftOf(rk[2]), RightOf(rk[2])} \cap DOMAIN map_dict[rk[1]] :
                  Len(map_dict[rk[1]][key].waypoints) = Len(LaneList(rk))

C10_Witness ==
    /\ Layout /\ pc = "done" /\ \A p \in Positions : OccursOnce(p)
    /\ \E a \in DOMAIN waypoints_graph :
          /\ waypoints_graph[a].left_lane_waypoint_id # -1
          /\ Len(waypoints_graph[a].next_waypoints_ids) = 1

====
